---- MODULE Spec2Model ----
(***************************************************************************)
(* A model of flamegraph/flamegraph.py: the polling sampler                *)
(* (class ProfileThread) and the interval-signal sampler (class Sampler).  *)
(*                                                                         *)
(* Text is modelled as a sequence of one-character strings, so that        *)
(* joining, reversing, formatting, sorting and regular-expression search   *)
(* are computed on the characters as the code computes them.               *)
(*                                                                         *)
(* Spec follows a process that holds a ProfileThread or two Samplers;      *)
(* FairSpec is the ProfileThread under a fair scheduler; LifeSpec starts   *)
(* before ProfileThread.__init__ and has stacks whose formatting raises;   *)
(* ReportSpec applies the serialization, the report and the formatters to  *)
(* aggregator contents and frame chains drawn from bounded sets.           *)
(***************************************************************************)
EXTENDS Integers, Sequences, FiniteSets, TLC

\* ------------------------------------------------------------------ bounds

\* sampling ticks (snapshots) of the polling sampler that are followed
MaxTicks == 1
\* start() calls of the interval-signal sampler that are followed
MaxStarts == 2
\* timer expiries of the interval-signal sampler that are followed
MaxObs == 2
\* readings of the wall clock
MaxTime == 1
\* the counts an aggregator is given: 1..MaxCount, and one of two digits
MaxCount == 2
BigCount == 12

\* ------------------------------------------------------------------ text

\* the code point of a character (Python compares str by code point)
Code(ch) ==
    CASE ch = " " -> 32
      [] ch = "." -> 46
      [] ch = "0" -> 48
      [] ch = "1" -> 49
      [] ch = "2" -> 50
      [] ch = "3" -> 51
      [] ch = "4" -> 52
      [] ch = "5" -> 53
      [] ch = "6" -> 54
      [] ch = "7" -> 55
      [] ch = "8" -> 56
      [] ch = "9" -> 57
      [] ch = ":" -> 58
      [] ch = ";" -> 59
      [] ch = "W" -> 87
      [] ch = "a" -> 97
      [] ch = "b" -> 98
      [] ch = "m" -> 109
      [] ch = "o" -> 111
      [] ch = "r" -> 114
      [] ch = "z" -> 122

RECURSIVE StrLess(_, _)
\* a < b on Python str: the first differing character decides, a proper
\* prefix is smaller
StrLess(a, b) ==
    IF b = <<>> THEN FALSE
    ELSE IF a = <<>> THEN TRUE
    ELSE IF Head(a) = Head(b) THEN StrLess(Tail(a), Tail(b))
    ELSE Code(Head(a)) < Code(Head(b))

RECURSIVE Reversed(_)
Reversed(s) == IF s = <<>> THEN <<>> ELSE Append(Reversed(Tail(s)), Head(s))

RECURSIVE Join(_, _)
\* sep.join(parts)
Join(sep, parts) ==
    IF parts = <<>> THEN <<>>
    ELSE IF Len(parts) = 1 THEN Head(parts)
    ELSE Head(parts) \o sep \o Join(sep, Tail(parts))

DigitChar(d) == <<"0", "1", "2", "3", "4", "5", "6", "7", "8", "9">>[d + 1]

RECURSIVE Dec(_)
\* '%d' % n for n >= 0
Dec(n) == IF n < 10 THEN <<DigitChar(n)>> ELSE Append(Dec(n \div 10), DigitChar(n % 10))

\* '%s %d\n' % (key, count)
FormatLine(key, count) == key \o <<" ">> \o Dec(count) \o <<"\n">>

RECURSIVE SortedDescending(_)
\* the keys, the greatest first
SortedDescending(S) ==
    IF S = {} THEN <<>>
    ELSE LET m == CHOOSE x \in S : \A y \in S \ {x} : StrLess(y, x)
         IN  <<m>> \o SortedDescending(S \ {m})

RECURSIVE Sorted(_)
\* sorted(keys): ascending, by selection of the minimum
Sorted(S) ==
    IF S = {} THEN <<>>
    ELSE LET m == CHOOSE x \in S : \A y \in S \ {x} : StrLess(x, y)
         IN  <<m>> \o Sorted(S \ {m})

\* ---------------------------------------------------------------- frames

\* A frame: has_mod says '__name__' is in f_globals (mod is its value, and
\* mod_str says the value is a str), has_self says 'self' is in f_locals
\* (cls is self.__class__.__name__, typ is type(self).__name__), name is
\* f_code.co_name.  A chain is the frame followed by its f_back links, leaf
\* first; f_back = None ends it.
Function(mod, name) ==
    [has_mod |-> TRUE, mod |-> mod, mod_str |-> TRUE, has_self |-> FALSE, cls |-> <<>>,
     typ |-> <<>>, name |-> name]
Method(cls, name) ==
    [has_mod |-> FALSE, mod |-> <<>>, mod_str |-> TRUE, has_self |-> TRUE, cls |-> cls,
     typ |-> cls, name |-> name]

ChainMainBar == << Function(<<"a">>, <<"b">>), Function(<<"a">>, <<"m">>) >>
ChainMain    == << Function(<<"a">>, <<"m">>) >>
ChainWorker  == << Method(<<"W">>, <<"r">>), Function(<<"o">>, <<"z">>) >>

ChainRun     == << Method(<<"W">>, <<"r">>) >>

\* a method frame whose self reports a __class__ that is not its type: a
\* proxy or a mock (__class__ is a property), an instance of an old-style
\* class (type(self) is 'instance')
ProxyMethod(cls, typ, name) ==
    [has_mod |-> FALSE, mod |-> <<>>, mod_str |-> TRUE, has_self |-> TRUE, cls |-> cls,
     typ |-> typ, name |-> name]

\* a function frame whose f_globals['__name__'] is not a str (None, say)
Nameless(name) ==
    [has_mod |-> TRUE, mod |-> <<>>, mod_str |-> FALSE, has_self |-> FALSE, cls |-> <<>>,
     typ |-> <<>>, name |-> name]

ChainNameless == << Nameless(<<"z">>), Function(<<"a">>, <<"m">>) >>

\* the stacks whose formatting raises
BrokenChains == {ChainNameless}

ChainProxy   == << ProxyMethod(<<"W">>, <<"o">>, <<"r">>), Function(<<"a">>, <<"m">>) >>

\* the stacks a profiled thread is found in
Chains == {ChainMainBar, ChainMain, ChainWorker}

\* the stacks a thread of the profiled program is found in: the main
\* thread runs a:m, which calls a:b; the other thread runs W.r under o:z and
\* calls a:m too
ThreadChains(t) == IF t = "main" THEN {ChainMain, ChainMainBar} ELSE {ChainMain, ChainWorker}

\* the stacks the timer signal interrupts
SampleChains == {ChainMain, ChainWorker}

\* extract_stack: the label of one frame (lines 22-32)
StackLabel(f) ==
    (IF f.has_mod THEN f.mod \o <<":">> ELSE <<>>)
    \o (IF f.has_self THEN f.cls \o <<".">> ELSE <<>>)
    \o f.name

\* line 31, ''.join(parts): TypeError when a part is not a str
JoinRaises(chain) == \E n \in DOMAIN chain : chain[n].has_mod /\ ~chain[n].mod_str

\* extract_stack(f): labels leaf to root, then reversed
extract_stack(chain) == Reversed([i \in 1..Len(chain) |-> StackLabel(chain[i])])

\* create_flamegraph_entry(thread_id, frame, collapse_recursion)
create_flamegraph_entry(chain) == Join(<<";">>, extract_stack(chain))

\* Sampler._format_frame(frame)
format_frame(f) ==
    (IF f.has_mod THEN f.mod \o <<":">> ELSE <<>>)
    \o (IF f.has_self THEN f.typ \o <<".">> ELSE <<>>)
    \o f.name

\* Sampler._sample: the key of the interrupted frame
sample_key(chain) == Join(<<";">>, Reversed([i \in 1..Len(chain) |-> format_frame(chain[i])]))

\* ------------------------------------------------------------- the filter

\* self._filter: None, or a compiled pattern, here an optional '^' anchor
\* followed by literal text.
NoFilter == [none |-> TRUE, anchored |-> FALSE, lit |-> <<>>]
Pattern(anchored, lit) == [none |-> FALSE, anchored |-> anchored, lit |-> lit]

PatMainPrefix == Pattern(TRUE, <<"a", ":", "m", ";">>)
PatBar        == Pattern(FALSE, <<":", "b">>)

\* the filter the constructor is given: None, or a pattern that compiles
Filters == {NoFilter, PatMainPrefix, PatBar}

\* a pattern with a parenthesis that is not closed
PatUnclosed   == Pattern(FALSE, <<"(">>)

\* a compile that accepts every pattern
CompilesAny(p) == TRUE

\* re.compile(filter), line 57: re.error for a parenthesis that is not closed
Compiles(p) == \A n \in DOMAIN p.lit : p.lit[n] # "("

\* pattern.search(text): a match at some position, at position 1 only
\* when anchored
Search(p, text) ==
    \E i \in 1..(Len(text) + 1) :
        /\ p.anchored => i = 1
        /\ i + Len(p.lit) - 1 <= Len(text)
        /\ SubSeq(text, i, i + Len(p.lit) - 1) = p.lit

\* --------------------------------------------------------------- counters

\* a defaultdict(int) is a function whose domain is the keys present
EmptyCounts == [k \in {} |-> 0]

\* d[k] = 1: the increment lost
IncrLost(d, k) == [x \in DOMAIN d \cup {k} |-> IF x = k THEN 1 ELSE d[x]]

\* d[k] += 1 on a defaultdict(int)
Incr(d, k) ==
    [x \in DOMAIN d \cup {k} |->
        IF x = k THEN (IF k \in DOMAIN d THEN d[k] ELSE 0) + 1 ELSE d[x]]

RECURSIVE SumOver(_, _)
SumOver(d, S) ==
    IF S = {} THEN 0
    ELSE LET k == CHOOSE x \in S : TRUE IN d[k] + SumOver(d, S \ {k})

\* num_frames(unique) of either sampler
num_frames(d, unique) == IF unique THEN Cardinality(DOMAIN d) ELSE SumOver(d, DOMAIN d)

\* ------------------------------------------------------------------ state

\* the threads that call the samplers' methods
Callers == {"main", "other"}
\* the sampler thread of a ProfileThread
SamplerThread == "sampler"
Threads == Callers \cup {SamplerThread}
\* the Sampler instances of the process
Instances == {"A", "B"}

VARIABLES
    program,        \* what the process constructed: a ProfileThread, or Samplers
    \* ---- ProfileThread
    thread_started, \* Thread.start() has been called on the ProfileThread
    keeprunning,    \* self._keeprunning
    written,        \* self._written
    lock,           \* self._lock: "free", or the thread that holds it
    filter,         \* self._filter
    stats,          \* self._stats
    pc,             \* where each thread is
    pending,        \* the items of sys._current_frames() the for loop has left
    keys,           \* per thread in _write_results: the sorted keys left to write
    sink,           \* self._fd: the arguments of the write() calls, in order
    closes,         \* the close() calls on self._fd
    \* ---- Sampler
    started,        \* self._started of each instance: -1 for None, or a time
    stack_counts,   \* self._stack_counts of each instance
    handler,        \* the handler of SIGVTALRM: "SIG_DFL", or the instance whose _sample it is
    timer,          \* ITIMER_VIRTUAL is armed
    now,            \* time.time()
    \* ---- the process
    hooks,          \* the atexit registrations (the object whose stop it is), in order
    exiting,        \* the interpreter is shutting down
    err,            \* per caller: what its last call raised, "none" if it returned
    \* ---- history
    ticks, nobs,    \* the counters the bounds cap
    call,           \* per caller: its current or last call
    hook,           \* the ProfileThread hook: "registered", "running", "returned", "raised"
    serializations, \* the times line 88 was reached
    late_write,     \* a write() reached a closed sink
    flushed,        \* a _write_results call has returned or raised
    stats_at_flag,  \* self._stats when self._written was set
    recorded,       \* per key, the observations the polling sampler recorded
    captured,       \* the key the polling sampler captured before it sleeps, else <<>>
    observed,       \* per instance and key, the observations recorded since reset
    ever_started,   \* per instance: a start() of it has returned
    stopped,        \* per instance: stop() was called after a start() of it returned
    last_call,      \* the last call of a Sampler method: its name, instance, caller, error
    sleeps,         \* the sleeps of run() since its last capture, -1 before the first
    capture_failed, \* lines 75-77 raised for some thread of a snapshot
    \* ---- the values the pure functions are given and return
    key_order,      \* per instance: the keys of self._stack_counts in the order of the dict
    report,         \* per instance: what output_stats returned last
    out,            \* per instance: the write() calls of write_results on the file it was given
    frame,          \* the chain of frames a formatter is given, root first
    poll_key,       \* what create_flamegraph_entry returned for it
    signal_key      \* the key _sample made of it

pollVars == <<thread_started, keeprunning, written, lock, filter, stats, pc, pending, keys,
              sink, closes, ticks, hook, serializations, late_write, flushed,
              stats_at_flag, recorded, captured, sleeps, capture_failed>>
sigVars  == <<started, stack_counts, key_order, handler, timer, now, nobs, observed,
              ever_started, stopped, last_call>>
procVars == <<program, hooks, exiting, err, call>>
outVars  == <<report, out, frame, poll_key, signal_key>>
vars == <<pollVars, sigVars, procVars, outVars>>

\* sys._current_frames().items(): the sampler thread, the main thread and
\* perhaps the other thread, in the order of the dict
Snapshots ==
    { s \in UNION { [1..n -> Threads] : n \in 2..3 } :
        /\ \A i, j \in DOMAIN s : i # j => s[i] # s[j]
        /\ SamplerThread \in { s[i] : i \in DOMAIN s }
        /\ "main" \in { s[i] : i \in DOMAIN s } }

\* a caller's call, current or last: "none", "start", "stop", or "stop again"
\* for a stop() that follows a stop() of the same caller that returned
Called(c, op) ==
    IF op = "stop" /\ call[c] \in {"stop", "stop again"} /\ err[c] = "none"
      THEN "stop again" ELSE op

\* the last Sampler call: again says it is a stop() that directly follows a
\* stop() of the same instance
NoCall == [op |-> "none", of |-> "none", by |-> "none", raised |-> "none", again |-> FALSE]
SamplerCall(op, i, c, raised) ==
    [op |-> op, of |-> i, by |-> c, raised |-> raised,
     again |-> op = "stop" /\ last_call.op = "stop" /\ last_call.of = i]

\* the state after construction: ProfileThread.__init__ (it registers stop
\* with atexit), or Sampler.__init__ of each instance
Init ==
    /\ program \in {"ProfileThread", "Sampler"}
    /\ thread_started = FALSE
    /\ keeprunning = TRUE
    /\ written = FALSE
    /\ lock = "free"
    /\ filter \in (IF program = "ProfileThread" THEN Filters ELSE {NoFilter})
    /\ stats = EmptyCounts
    /\ pc = [t \in Threads |-> IF t = SamplerThread THEN "new" ELSE "idle"]
    /\ pending = <<>>
    /\ keys = [t \in Threads |-> <<>>]
    /\ sink = <<>>
    /\ closes = 0
    /\ started = [i \in Instances |-> -1]
    /\ stack_counts = [i \in Instances |-> EmptyCounts]
    /\ handler = "SIG_DFL"
    /\ timer = FALSE
    /\ now = 0
    /\ hooks = IF program = "ProfileThread" THEN <<"ProfileThread">> ELSE <<>>
    /\ exiting = FALSE
    /\ err = [c \in Callers |-> "none"]
    /\ ticks = 0
    /\ nobs = 0
    /\ call = [c \in Callers |-> "none"]
    /\ hook = "registered"
    /\ serializations = 0
    /\ late_write = FALSE
    /\ flushed = FALSE
    /\ stats_at_flag = EmptyCounts
    /\ recorded = EmptyCounts
    /\ captured = <<>>
    /\ observed = [i \in Instances |-> EmptyCounts]
    /\ ever_started = [i \in Instances |-> FALSE]
    /\ stopped = [i \in Instances |-> FALSE]
    /\ last_call = NoCall
    /\ sleeps = -1
    /\ capture_failed = FALSE
    /\ key_order = [i \in Instances |-> <<>>]
    /\ report = [i \in Instances |-> <<>>]
    /\ out = [i \in Instances |-> <<>>]
    /\ frame = <<>>
    /\ poll_key = <<>>
    /\ signal_key = <<>>

\* ------------------------------------------------ ProfileThread: callers

\* where a thread goes when its _write_results call returns: a caller of
\* stop() to line 105, the sampler thread to the end of run()
AfterWrite(t) == IF t = SamplerThread THEN "done" ELSE "join"

\* start_profile_thread line 200, Thread.start(): a thread "can only be
\* started once"
Start ==
    /\ program = "ProfileThread"
    /\ ~exiting
    /\ pc["main"] = "idle"
    /\ call' = [call EXCEPT !["main"] = Called("main", "start")]
    /\ IF thread_started
         THEN /\ err' = [err EXCEPT !["main"] = "RuntimeError"]
              /\ UNCHANGED <<thread_started, pc>>
         ELSE /\ err' = [err EXCEPT !["main"] = "none"]
              /\ thread_started' = TRUE
              /\ pc' = [pc EXCEPT ![SamplerThread] = "test"]
    /\ UNCHANGED <<keeprunning, written, lock, filter, stats, pending, keys, sink, closes,
                   ticks, hook, serializations, late_write, flushed, stats_at_flag,
                   recorded, captured>>
    /\ UNCHANGED <<sleeps, capture_failed>>
    /\ UNCHANGED <<sigVars, program, hooks, exiting>>
    /\ UNCHANGED outVars

\* ProfileThread.stop, lines 99-101: clear the run flag, set the event (no
\* one waits on it), and call _write_results
StopEnter(c) ==
    /\ keeprunning' = FALSE
    /\ pc' = [pc EXCEPT ![c] = "acquire"]
    /\ call' = [call EXCEPT ![c] = Called(c, "stop")]
    /\ err' = [err EXCEPT ![c] = "none"]
    /\ UNCHANGED <<thread_started, written, lock, filter, stats, pending, keys, sink,
                   closes, ticks, serializations, late_write, flushed, stats_at_flag,
                   recorded, captured>>
    /\ UNCHANGED <<sleeps, capture_failed>>
    /\ UNCHANGED <<sigVars, program, exiting>>
    /\ UNCHANGED outVars

\* an explicit stop() by either caller
Stop(c) ==
    /\ program = "ProfileThread"
    /\ pc[c] = "idle"
    /\ c = "main" => ~exiting
    /\ StopEnter(c)
    /\ UNCHANGED <<hooks, hook>>

\* the main thread reaches the end of the program
Exit ==
    /\ ~exiting
    /\ pc["main"] = "idle"
    /\ exiting' = TRUE
    /\ UNCHANGED <<pollVars, sigVars, program, hooks, err, call>>
    /\ UNCHANGED outVars

\* atexit runs the stop registered at line 66
AtexitStop ==
    /\ program = "ProfileThread"
    /\ exiting
    /\ hooks # <<>>
    /\ pc["main"] = "idle"
    /\ hooks' = SubSeq(hooks, 1, Len(hooks) - 1)
    /\ hook' = "running"
    /\ StopEnter("main")

\* what a return or a raise of stop() leaves of the hook
HookAfter(c, raised) ==
    IF c = "main" /\ hook = "running" THEN (IF raised THEN "raised" ELSE "returned") ELSE hook

\* a join() that waits for nothing
IsAliveNever == FALSE

\* the thread join() waits for: started, and run() has not ended
IsAlive == thread_started /\ pc[SamplerThread] # "done"

\* line 105, Thread.join() of a thread that was never started: RuntimeError
JoinUnstarted(c) ==
    /\ pc[c] = "join"
    /\ ~thread_started
    /\ pc' = [pc EXCEPT ![c] = "idle"]
    /\ err' = [err EXCEPT ![c] = "RuntimeError"]
    /\ hook' = HookAfter(c, TRUE)
    /\ UNCHANGED <<thread_started, keeprunning, written, lock, filter, stats, pending, keys,
                   sink, closes, ticks, serializations, late_write, flushed, stats_at_flag,
                   recorded, captured>>
    /\ UNCHANGED <<sleeps, capture_failed>>
    /\ UNCHANGED <<sigVars, program, hooks, exiting, call>>
    /\ UNCHANGED outVars

\* line 105, Thread.join(): returns once run() has ended
JoinReturn(c) ==
    /\ pc[c] = "join"
    /\ thread_started
    /\ ~IsAlive
    /\ pc' = [pc EXCEPT ![c] = "idle"]
    /\ hook' = HookAfter(c, FALSE)
    /\ UNCHANGED <<thread_started, keeprunning, written, lock, filter, stats, pending, keys,
                   sink, closes, ticks, serializations, late_write, flushed, stats_at_flag,
                   recorded, captured>>
    /\ UNCHANGED <<sleeps, capture_failed>>
    /\ UNCHANGED <<sigVars, program, hooks, exiting, err, call>>
    /\ UNCHANGED outVars

\* ------------------------------------------ ProfileThread._write_results

\* a lock that excludes no one
LockFreeAlways(t) == TRUE

\* self._lock can be acquired by t
LockFree(t) == lock = "free"

\* no test of self._written
AlreadyWrittenNever == FALSE

\* line 85: if self._written
AlreadyWritten == written

\* lines 84-86: enter the with block and test self._written; when it is
\* set, return (leaving the with block releases the lock)
WriteAcquire(t) ==
    /\ pc[t] = "acquire"
    /\ LockFree(t)
    /\ IF AlreadyWritten
         THEN /\ pc' = [pc EXCEPT ![t] = AfterWrite(t)]
              /\ flushed' = TRUE
              /\ UNCHANGED lock
         ELSE /\ pc' = [pc EXCEPT ![t] = "set"]
              /\ lock' = t
              /\ UNCHANGED flushed
    /\ UNCHANGED <<thread_started, keeprunning, written, filter, stats, pending, keys, sink,
                   closes, ticks, hook, serializations, late_write, stats_at_flag,
                   recorded, captured>>
    /\ UNCHANGED <<sleeps, capture_failed>>
    /\ UNCHANGED <<sigVars, procVars>>
    /\ UNCHANGED outVars

\* line 87
WriteSetFlag(t) ==
    /\ pc[t] = "set"
    /\ written' = TRUE
    /\ stats_at_flag' = stats
    /\ pc' = [pc EXCEPT ![t] = "sort"]
    /\ UNCHANGED <<thread_started, keeprunning, lock, filter, stats, pending, keys, sink,
                   closes, ticks, hook, serializations, late_write, flushed,
                   recorded, captured>>
    /\ UNCHANGED <<sleeps, capture_failed>>
    /\ UNCHANGED <<sigVars, procVars>>
    /\ UNCHANGED outVars

\* line 88: sorted(self._stats.keys()), a list made in one step
WriteSort(t) ==
    /\ pc[t] = "sort"
    /\ keys' = [keys EXCEPT ![t] = Sorted(DOMAIN stats)]
    /\ serializations' = serializations + 1
    /\ pc' = [pc EXCEPT ![t] = "write"]
    /\ UNCHANGED <<thread_started, keeprunning, written, lock, filter, stats, pending, sink,
                   closes, ticks, hook, late_write, flushed, stats_at_flag,
                   recorded, captured>>
    /\ UNCHANGED <<sleeps, capture_failed>>
    /\ UNCHANGED <<sigVars, procVars>>
    /\ UNCHANGED outVars

\* line 89, one pass of the loop: self._stats[key] is read now.  write() on
\* a closed file raises ValueError: the with block releases the lock, and
\* the error ends stop() or run()
WriteLine(t) ==
    /\ pc[t] = "write"
    /\ keys[t] # <<>>
    /\ IF closes > 0
         THEN /\ late_write' = TRUE
              /\ flushed' = TRUE
              /\ lock' = IF lock = t THEN "free" ELSE lock
              /\ keys' = [keys EXCEPT ![t] = <<>>]
              /\ pc' = [pc EXCEPT ![t] = IF t = SamplerThread THEN "done" ELSE "idle"]
              /\ err' = IF t \in Callers THEN [err EXCEPT ![t] = "ValueError"] ELSE err
              /\ hook' = HookAfter(t, TRUE)
              /\ UNCHANGED sink
         ELSE /\ sink' = Append(sink, FormatLine(Head(keys[t]), stats[Head(keys[t])]))
              /\ keys' = [keys EXCEPT ![t] = Tail(keys[t])]
              /\ UNCHANGED <<late_write, flushed, lock, pc, err, hook>>
    /\ UNCHANGED <<thread_started, keeprunning, written, filter, stats, pending, closes,
                   ticks, serializations, stats_at_flag, recorded, captured>>
    /\ UNCHANGED <<sleeps, capture_failed>>
    /\ UNCHANGED <<sigVars, program, hooks, exiting, call>>
    /\ UNCHANGED outVars

\* line 90, and the end of the with block
WriteClose(t) ==
    /\ pc[t] = "write"
    /\ keys[t] = <<>>
    /\ closes' = closes + 1
    /\ lock' = IF lock = t THEN "free" ELSE lock
    /\ flushed' = TRUE
    /\ pc' = [pc EXCEPT ![t] = AfterWrite(t)]
    /\ UNCHANGED <<thread_started, keeprunning, written, filter, stats, pending, keys, sink,
                   ticks, hook, serializations, late_write, stats_at_flag,
                   recorded, captured>>
    /\ UNCHANGED <<sleeps, capture_failed>>
    /\ UNCHANGED <<sigVars, procVars>>
    /\ UNCHANGED outVars

\* ------------------------------------------------- ProfileThread.run

\* line 70; a run that is not stopped is followed for MaxTicks ticks
LoopTest ==
    /\ pc[SamplerThread] = "test"
    /\ IF keeprunning
         THEN /\ ticks < MaxTicks
              /\ pc' = [pc EXCEPT ![SamplerThread] = "snapshot"]
         ELSE pc' = [pc EXCEPT ![SamplerThread] = "acquire"]
    /\ UNCHANGED <<thread_started, keeprunning, written, lock, filter, stats, pending, keys,
                   sink, closes, ticks, hook, serializations, late_write, flushed,
                   stats_at_flag, recorded, captured>>
    /\ UNCHANGED <<sleeps, capture_failed>>
    /\ UNCHANGED <<sigVars, procVars>>
    /\ UNCHANGED outVars

\* line 71: sys._current_frames().items()
Snapshot ==
    /\ pc[SamplerThread] = "snapshot"
    /\ \E s \in Snapshots : pending' = s
    /\ ticks' = ticks + 1
    /\ pc' = [pc EXCEPT ![SamplerThread] = "for"]
    /\ UNCHANGED <<thread_started, keeprunning, written, lock, filter, stats, keys, sink,
                   closes, hook, serializations, late_write, flushed, stats_at_flag,
                   recorded, captured>>
    /\ UNCHANGED <<sleeps, capture_failed>>
    /\ UNCHANGED <<sigVars, procVars>>
    /\ UNCHANGED outVars

\* line 71, the loop is exhausted: back to line 70
ForEnd ==
    /\ pc[SamplerThread] = "for"
    /\ pending = <<>>
    /\ pc' = [pc EXCEPT ![SamplerThread] = "test"]
    /\ UNCHANGED <<thread_started, keeprunning, written, lock, filter, stats, pending, keys,
                   sink, closes, ticks, hook, serializations, late_write, flushed,
                   stats_at_flag, recorded, captured>>
    /\ UNCHANGED <<sleeps, capture_failed>>
    /\ UNCHANGED <<sigVars, procVars>>
    /\ UNCHANGED outVars

\* a test that finds no thread to be the sampler's own
IsSelfNever(thread_id) == FALSE

\* line 72: thread_id == my_thread
IsSelf(thread_id) == thread_id = SamplerThread

\* lines 72-73: the sampler's own thread is skipped
SkipSelf ==
    /\ pc[SamplerThread] = "for"
    /\ pending # <<>>
    /\ IsSelf(Head(pending))
    /\ pending' = Tail(pending)
    /\ UNCHANGED <<thread_started, keeprunning, written, lock, filter, stats, pc, keys, sink,
                   closes, ticks, hook, serializations, late_write, flushed, stats_at_flag,
                   recorded, captured>>
    /\ UNCHANGED <<sleeps, capture_failed>>
    /\ UNCHANGED <<sigVars, procVars>>
    /\ UNCHANGED outVars

\* self._filter.match(entry): a match at the start only
PassesMatch(entry) ==
    \/ filter.none
    \/ Len(filter.lit) <= Len(entry) /\ filter.lit = SubSeq(entry, 1, Len(filter.lit))

\* line 76: self._filter is None or self._filter.search(entry)
Passes(entry) == filter.none \/ Search(filter, entry)

\* a sleep that is part of the if of line 76
AfterCaptureIfCounted(passed) == IF passed THEN "sleep" ELSE "for"

\* where run() goes after lines 75-77: line 79 is at the level of the loop
\* body, so the sleep follows whether or not the entry was counted
AfterCapture(passed) == "sleep"

\* lines 75-77: the thread is found in some stack; its entry is counted
\* when it passes the filter
Capture ==
    /\ pc[SamplerThread] = "for"
    /\ pending # <<>>
    /\ ~IsSelf(Head(pending))
    /\ \E chain \in ThreadChains(Head(pending)) :
         LET entry == create_flamegraph_entry(chain) IN
         /\ captured' = entry
         /\ IF Passes(entry)
              THEN /\ stats' = Incr(stats, entry)
                   /\ recorded' = [k \in DOMAIN recorded \cup {entry} |->
                                     IF k \in DOMAIN recorded
                                       THEN recorded[k] + (IF k = entry THEN 1 ELSE 0)
                                       ELSE 1]
              ELSE UNCHANGED <<stats, recorded>>
         /\ pc' = [pc EXCEPT ![SamplerThread] = AfterCapture(Passes(entry))]
    /\ pending' = Tail(pending)
    /\ sleeps' = 0
    /\ UNCHANGED <<thread_started, keeprunning, written, lock, filter, keys, sink, closes,
                   ticks, hook, serializations, late_write, flushed, stats_at_flag>>
    /\ UNCHANGED capture_failed
    /\ UNCHANGED <<sigVars, procVars>>
    /\ UNCHANGED outVars

\* lines 75-77 raise: extract_stack fails on a frame of the thread's stack.
\* Nothing in run() catches the error: it ends run(), and the thread with
\* it, before line 81
CaptureFails ==
    /\ pc[SamplerThread] = "for"
    /\ pending # <<>>
    /\ ~IsSelf(Head(pending))
    /\ \E chain \in BrokenChains : JoinRaises(chain)
    /\ capture_failed' = TRUE
    /\ pc' = [pc EXCEPT ![SamplerThread] = "done"]
    /\ UNCHANGED <<thread_started, keeprunning, written, lock, filter, stats, pending, keys,
                   sink, closes, ticks, hook, serializations, late_write, flushed,
                   stats_at_flag, recorded, captured, sleeps>>
    /\ UNCHANGED <<sigVars, procVars>>
    /\ UNCHANGED outVars

\* line 79
Sleep ==
    /\ pc[SamplerThread] = "sleep"
    /\ pc' = [pc EXCEPT ![SamplerThread] = "for"]
    /\ captured' = <<>>
    /\ sleeps' = sleeps + 1
    /\ UNCHANGED <<thread_started, keeprunning, written, lock, filter, stats, pending, keys,
                   sink, closes, ticks, hook, serializations, late_write, flushed,
                   stats_at_flag, recorded>>
    /\ UNCHANGED capture_failed
    /\ UNCHANGED <<sigVars, procVars>>
    /\ UNCHANGED outVars


\* ------------------------------------------------------------- Sampler

\* the order of a dict after d[k] += 1: a new key goes last, a key the dict
\* holds keeps its place
Inserted(order, k) ==
    IF \E n \in DOMAIN order : order[n] = k THEN order ELSE Append(order, k)

\* a reset that keeps the counts
ResetCountsKept(d) == d

\* line 171: self._stack_counts = collections.defaultdict(int)
ResetCounts(d) == EmptyCounts

\* signal.setitimer(signal.ITIMER_VIRTUAL, seconds[, interval]): zero
\* seconds disarm the timer of the process, others arm it
Setitimer(seconds) == seconds # 0

\* a signal.signal that works in every thread
MainThreadAny(c) == TRUE

\* signal.signal (line 122) works in the main thread only: in any other it
\* raises ValueError
MainThread(c) == c = "main"

\* the interval the constructor is given, a positive number
Interval == 1

\* Sampler.start, lines 120-128, called by thread c.  signal.signal raises
\* ValueError in a thread that is not the main thread, and start raises its
\* own ValueError then
SamplerStart(i, c) ==
    /\ program = "Sampler"
    /\ c = "main" => ~exiting /\ Len(hooks) < MaxStarts
    /\ started' = [started EXCEPT ![i] = now]
    /\ IF ~MainThread(c)
         THEN /\ last_call' = SamplerCall("start", i, c, "ValueError")
              /\ UNCHANGED <<handler, timer, hooks, ever_started>>
         ELSE /\ last_call' = SamplerCall("start", i, c, "none")
              /\ handler' = i
              /\ timer' = Setitimer(Interval)
              /\ hooks' = Append(hooks, i)
              /\ ever_started' = [ever_started EXCEPT ![i] = TRUE]
    /\ UNCHANGED <<stack_counts, key_order, now, nobs, observed, stopped>>
    /\ UNCHANGED <<pollVars, program, exiting, err, call>>
    /\ UNCHANGED outVars

\* the timer expires and SIGVTALRM is delivered: the handler installed,
\* Sampler._sample of some instance (lines 131-137), counts the stack of the
\* interrupted frame.  Expiry and the run of the handler are one step: a
\* signal left pending across a setitimer call is not followed.
Sample ==
    /\ program = "Sampler"
    /\ timer
    /\ handler \in Instances
    /\ nobs < MaxObs
    /\ nobs' = nobs + 1
    /\ \E chain \in SampleChains :
         LET stack == sample_key(chain) IN
         /\ stack_counts' = [stack_counts EXCEPT ![handler] = Incr(@, stack)]
         /\ key_order' = [key_order EXCEPT ![handler] = Inserted(@, stack)]
         /\ observed' = [observed EXCEPT ![handler] =
                            [k \in DOMAIN @ \cup {stack} |->
                               IF k \in DOMAIN @ THEN @[k] + (IF k = stack THEN 1 ELSE 0)
                                                 ELSE 1]]
    /\ UNCHANGED <<started, handler, timer, now, ever_started, stopped, last_call>>
    /\ UNCHANGED <<pollVars, procVars>>
    /\ UNCHANGED outVars

\* Sampler.stop, lines 175-176
StopBody(i, c) ==
    /\ timer' = Setitimer(0)
    /\ stopped' = [stopped EXCEPT ![i] = @ \/ ever_started[i]]
    /\ last_call' = SamplerCall("stop", i, c, "none")
    /\ UNCHANGED <<started, stack_counts, key_order, handler, now, nobs, observed,
                   ever_started>>
    /\ UNCHANGED <<pollVars, program, exiting, err, call>>
    /\ UNCHANGED outVars

\* an explicit stop() by either caller
SamplerStop(i, c) ==
    /\ program = "Sampler"
    /\ c = "main" => ~exiting
    /\ StopBody(i, c)
    /\ UNCHANGED hooks

\* atexit runs the stops registered at line 128, the last one first
SamplerAtexit ==
    /\ program = "Sampler"
    /\ exiting
    /\ hooks # <<>>
    /\ hooks' = SubSeq(hooks, 1, Len(hooks) - 1)
    /\ StopBody(hooks[Len(hooks)], "main")

\* Sampler.__del__, lines 178-179: the collector finalizes an instance
\* that nothing refers to, which is one whose start() never got as far as
\* lines 122 and 128 (the handler and the hook hold a reference to it), and
\* __del__ calls stop().  The name then stands for a new instance.
Del(i) ==
    /\ program = "Sampler"
    /\ ~exiting
    /\ ~ever_started[i]
    /\ timer' = Setitimer(0)
    /\ started' = [started EXCEPT ![i] = -1]
    /\ stack_counts' = [stack_counts EXCEPT ![i] = EmptyCounts]
    /\ key_order' = [key_order EXCEPT ![i] = <<>>]
    /\ observed' = [observed EXCEPT ![i] = EmptyCounts]
    /\ last_call' = SamplerCall("del", i, "main", "none")
    /\ UNCHANGED <<handler, now, nobs, ever_started, stopped>>
    /\ UNCHANGED <<pollVars, procVars>>
    /\ UNCHANGED outVars

\* Sampler.reset, lines 170-171
Reset(i) ==
    /\ program = "Sampler"
    /\ ~exiting
    /\ started' = [started EXCEPT ![i] = now]
    /\ stack_counts' = [stack_counts EXCEPT ![i] = ResetCounts(@)]
    /\ key_order' = [key_order EXCEPT ![i] = SelectSeq(@, LAMBDA k : k \in DOMAIN ResetCounts(stack_counts[i]))]
    /\ observed' = [observed EXCEPT ![i] = EmptyCounts]
    /\ last_call' = SamplerCall("reset", i, "main", "none")
    /\ UNCHANGED <<handler, timer, now, nobs, ever_started, stopped>>
    /\ UNCHANGED <<pollVars, procVars>>
    /\ UNCHANGED outVars

\* time passes
Tick ==
    /\ program = "Sampler"
    /\ now < MaxTime
    /\ now' = now + 1
    /\ UNCHANGED <<started, stack_counts, key_order, handler, timer, nobs, observed,
                   ever_started, stopped, last_call>>
    /\ UNCHANGED <<pollVars, procVars>>
    /\ UNCHANGED outVars

SamplerNext ==
    \/ \E i \in Instances, c \in Callers : SamplerStart(i, c)
    \/ \E i \in Instances, c \in Callers : SamplerStop(i, c)
    \/ \E i \in Instances : Reset(i)
    \/ \E i \in Instances : Del(i)
    \/ Sample
    \/ SamplerAtexit
    \/ Tick

PollNext ==
    \/ Start
    \/ Exit
    \/ AtexitStop
    \/ \E c \in Callers : Stop(c)
    \/ \E c \in Callers : JoinUnstarted(c)
    \/ \E c \in Callers : JoinReturn(c)
    \/ \E t \in Threads : WriteAcquire(t)
    \/ \E t \in Threads : WriteSetFlag(t)
    \/ \E t \in Threads : WriteSort(t)
    \/ \E t \in Threads : WriteLine(t)
    \/ \E t \in Threads : WriteClose(t)
    \/ LoopTest \/ Snapshot \/ ForEnd \/ SkipSelf \/ Capture \/ Sleep

Next == PollNext \/ SamplerNext

Spec == Init /\ [][Next]_vars

\* the state after ProfileThread.__init__
PollInit == Init /\ program = "ProfileThread"

\* ------------------------------------------ ProfileThread.__init__

\* the process before a ProfileThread is constructed
CtorInit ==
    /\ program = "none"
    /\ thread_started = FALSE
    /\ keeprunning = TRUE
    /\ written = FALSE
    /\ lock = "free"
    /\ filter = NoFilter
    /\ stats = EmptyCounts
    /\ pc = [t \in Threads |-> IF t = SamplerThread THEN "new" ELSE "idle"]
    /\ pending = <<>>
    /\ keys = [t \in Threads |-> <<>>]
    /\ sink = <<>>
    /\ closes = 0
    /\ started = [i \in Instances |-> -1]
    /\ stack_counts = [i \in Instances |-> EmptyCounts]
    /\ handler = "SIG_DFL"
    /\ timer = FALSE
    /\ now = 0
    /\ hooks = <<>>
    /\ exiting = FALSE
    /\ err = [c \in Callers |-> "none"]
    /\ ticks = 0
    /\ nobs = 0
    /\ call = [c \in Callers |-> "none"]
    /\ hook = "registered"
    /\ serializations = 0
    /\ late_write = FALSE
    /\ flushed = FALSE
    /\ stats_at_flag = EmptyCounts
    /\ recorded = EmptyCounts
    /\ captured = <<>>
    /\ observed = [i \in Instances |-> EmptyCounts]
    /\ ever_started = [i \in Instances |-> FALSE]
    /\ stopped = [i \in Instances |-> FALSE]
    /\ last_call = NoCall
    /\ sleeps = -1
    /\ capture_failed = FALSE
    /\ key_order = [i \in Instances |-> <<>>]
    /\ report = [i \in Instances |-> <<>>]
    /\ out = [i \in Instances |-> <<>>]
    /\ frame = <<>>
    /\ poll_key = <<>>
    /\ signal_key = <<>>

\* ProfileThread(fd, interval, filter), lines 47-66, by the main thread.
\* re.compile (line 57) raises for a pattern that does not compile, and the
\* constructor ends there: lines 59-66 do not run.  call says which filter
\* the constructor was given.
Construct(f) ==
    /\ program = "none"
    /\ ~exiting
    /\ pc["main"] = "idle"
    /\ call' = [call EXCEPT !["main"] =
                   IF \E n \in DOMAIN f.lit : f.lit[n] = "("
                     THEN "ProfileThread, filter unclosed" ELSE "ProfileThread"]
    /\ IF f.none \/ Compiles(f)
         THEN /\ program' = "ProfileThread"
              /\ filter' = f
              /\ hooks' = Append(hooks, "ProfileThread")
              /\ err' = [err EXCEPT !["main"] = "none"]
         ELSE /\ err' = [err EXCEPT !["main"] = "re.error"]
              /\ UNCHANGED <<program, filter, hooks>>
    /\ UNCHANGED <<thread_started, keeprunning, written, lock, stats, pc, pending, keys, sink,
                   closes, ticks, hook, serializations, late_write, flushed, stats_at_flag,
                   recorded, captured, sleeps, capture_failed>>
    /\ UNCHANGED <<sigVars, exiting>>
    /\ UNCHANGED outVars

\* a process that constructs a ProfileThread and uses it, with threads whose
\* stacks may fail to format
LifeNext ==
    \/ \E f \in Filters \cup {PatUnclosed} : Construct(f)
    \/ PollNext
    \/ CaptureFails

LifeSpec == CtorInit /\ [][LifeNext]_vars

\* ------------------------------------------- serialization and report

RECURSIVE WriteLines(_, _)
\* the write() calls of the loop over the sorted keys (lines 88-89, 182-183)
WriteLines(ks, d) ==
    IF ks = <<>> THEN <<>> ELSE <<FormatLine(Head(ks), d[Head(ks)])>> \o WriteLines(Tail(ks), d)

\* Sampler.write_results(fd), lines 181-183: it does not close fd.  The
\* first call on a file is followed.
WriteResults(i) ==
    /\ program = "Sampler"
    /\ out[i] = <<>>
    /\ out' = [out EXCEPT ![i] = WriteLines(Sorted(DOMAIN stack_counts[i]), stack_counts[i])]
    /\ UNCHANGED <<report, frame, poll_key, signal_key>>
    /\ UNCHANGED <<pollVars, sigVars, procVars>>

RECURSIVE ByCountAscending(_, _)
\* the items by count, the least first
ByCountAscending(order, d) ==
    IF order = <<>> THEN <<>>
    ELSE LET n == CHOOSE n \in DOMAIN order :
                    /\ \A j \in DOMAIN order : d[order[n]] <= d[order[j]]
                    /\ \A j \in 1..(n - 1) : d[order[j]] # d[order[n]]
         IN  <<order[n]>>
             \o ByCountAscending(SubSeq(order, 1, n - 1) \o SubSeq(order, n + 1, Len(order)), d)

RECURSIVE ByCount(_, _)
\* sorted(items, key=lambda kv: kv[1], reverse=True), line 163: the greatest
\* count first; the sort is stable, and with reverse=True too items of
\* equal count keep the order they have in the dict
ByCount(order, d) ==
    IF order = <<>> THEN <<>>
    ELSE LET n == CHOOSE n \in DOMAIN order :
                    /\ \A j \in DOMAIN order : d[order[n]] >= d[order[j]]
                    /\ \A j \in 1..(n - 1) : d[order[j]] # d[order[n]]
         IN  <<order[n]>>
             \o ByCount(SubSeq(order, 1, n - 1) \o SubSeq(order, n + 1, Len(order)), d)

\* str(x) of a float that holds a whole number of seconds
FloatStr(n) == Dec(n) \o <<".", "0">>

\* Sampler.output_stats, lines 157-167, at time t
output_stats(i, t) ==
    IF started[i] = -1 THEN <<>>
    ELSE LET ordered_stacks == ByCount(key_order[i], stack_counts[i])
             lines ==
                 << <<"e", "l", "a", "p", "s", "e", "d", " ">> \o FloatStr(t - started[i]),
                    <<"g", "r", "a", "n", "u", "l", "a", "r", "i", "t", "y", " ">> \o Dec(Interval) >>
                 \o [n \in 1..Len(ordered_stacks) |->
                        ordered_stacks[n] \o <<" ">> \o Dec(stack_counts[i][ordered_stacks[n]])]
         IN  Join(<<"\n">>, lines) \o <<"\n">>

\* a call of output_stats
OutputStats(i) ==
    /\ program = "Sampler"
    /\ report' = [report EXCEPT ![i] = output_stats(i, now)]
    /\ UNCHANGED <<out, frame, poll_key, signal_key>>
    /\ UNCHANGED <<pollVars, sigVars, procVars>>

\* one chain of frames given to both formatters: the polling sampler's
\* (line 75) and the signal handler's (lines 131-136)
Format ==
    /\ program = "formatter"
    /\ poll_key' = create_flamegraph_entry(frame)
    /\ signal_key' = sample_key(frame)
    /\ UNCHANGED <<report, out, frame>>
    /\ UNCHANGED <<pollVars, sigVars, procVars>>

\* the keys the aggregators are given: one is a prefix of another, one
\* starts with a capital
ReportKeys == { create_flamegraph_entry(c) : c \in {ChainMain, ChainMainBar, ChainRun} }

CountValues == (1..MaxCount) \cup {BigCount}

\* the contents of an aggregator
Dicts == UNION { [K -> CountValues] : K \in SUBSET ReportKeys }

\* the orders a dict can hold the keys K in
Orders(K) ==
    { o \in [1..Cardinality(K) -> K] : \A m, n \in DOMAIN o : m # n => o[m] # o[n] }

\* the chains of frames a formatter is given
FormatChains == Chains \cup {ChainRun, ChainProxy}

\* The states the serialization, the report and the formatters are applied
\* in.  ProfileThread: stop() has cleared the run flag and run() has left
\* its loop, both are about to call _write_results.  Sampler: two instances
\* that hold the same counts, each with the keys in an order of its own;
\* one that holds no count may not have been started.
ReportInit ==
    /\ program \in {"ProfileThread", "Sampler", "formatter"}
    /\ \E d \in (IF program = "formatter" THEN {EmptyCounts} ELSE Dicts) :
         /\ stats = IF program = "ProfileThread" THEN d ELSE EmptyCounts
         /\ stack_counts = [i \in Instances |-> IF program = "Sampler" THEN d ELSE EmptyCounts]
         /\ started \in [Instances -> IF program = "Sampler"
                                        THEN (IF d = EmptyCounts THEN {-1, 0} ELSE {0})
                                        ELSE {-1}]
    /\ recorded = stats
    /\ observed = stack_counts
    /\ key_order \in [Instances -> Orders(DOMAIN stack_counts["A"])]
    /\ thread_started = (program = "ProfileThread")
    /\ keeprunning = (program # "ProfileThread")
    /\ written = FALSE
    /\ lock = "free"
    /\ filter = IF program = "ProfileThread" /\ stats = EmptyCounts THEN PatBar ELSE NoFilter
    /\ pc = [t \in Threads |->
               IF program = "ProfileThread"
                 THEN (IF t = "other" THEN "idle" ELSE "acquire")
                 ELSE (IF t = SamplerThread THEN "new" ELSE "idle")]
    /\ pending = <<>>
    /\ keys = [t \in Threads |-> <<>>]
    /\ sink = <<>>
    /\ closes = 0
    /\ ever_started = [i \in Instances |-> started[i] >= 0]
    /\ handler = IF ever_started["B"] THEN "B" ELSE IF ever_started["A"] THEN "A" ELSE "SIG_DFL"
    /\ timer \in (IF handler = "SIG_DFL" THEN {FALSE} ELSE BOOLEAN)
    /\ now \in (IF program = "Sampler" THEN 0..MaxTime ELSE {0})
    /\ hooks = IF program = "ProfileThread" THEN <<"ProfileThread">>
               ELSE SelectSeq(<<"A", "B">>, LAMBDA i : ever_started[i])
    /\ exiting = FALSE
    /\ err = [c \in Callers |-> "none"]
    /\ ticks = IF program = "ProfileThread" THEN MaxTicks ELSE 0
    /\ nobs = IF program = "Sampler" THEN MaxObs ELSE 0
    /\ call = [c \in Callers |-> IF program = "ProfileThread" /\ c = "main" THEN "stop" ELSE "none"]
    /\ hook = "registered"
    /\ serializations = 0
    /\ late_write = FALSE
    /\ flushed = FALSE
    /\ stats_at_flag = EmptyCounts
    /\ captured = <<>>
    /\ stopped = [i \in Instances |-> ever_started[i] /\ ~timer]
    /\ last_call = NoCall
    /\ sleeps = IF program = "ProfileThread" THEN 1 ELSE -1
    /\ capture_failed = FALSE
    /\ report = [i \in Instances |-> <<>>]
    /\ out = [i \in Instances |-> <<>>]
    /\ frame \in (IF program = "formatter" THEN FormatChains ELSE {<<>>})
    /\ poll_key = <<>>
    /\ signal_key = <<>>

ReportNext ==
    \/ \E t \in Threads : WriteAcquire(t)
    \/ \E t \in Threads : WriteSetFlag(t)
    \/ \E t \in Threads : WriteSort(t)
    \/ \E t \in Threads : WriteLine(t)
    \/ \E t \in Threads : WriteClose(t)
    \/ \E c \in Callers : JoinReturn(c)
    \/ \E i \in Instances : WriteResults(i)
    \/ \E i \in Instances : OutputStats(i)
    \/ Format

\* the serialization, the report and the formatters, applied to the
\* contents and the chains of ReportInit
ReportSpec == ReportInit /\ [][ReportNext]_vars

\* a process that constructed a ProfileThread, under a scheduler that lets
\* every thread that can take a step take one; calls of start() and stop()
\* and the end of the program are up to the program
FairSpec ==
    /\ PollInit
    /\ [][PollNext]_vars
    /\ WF_vars(LoopTest \/ Snapshot \/ ForEnd \/ SkipSelf \/ Capture \/ Sleep
               \/ WriteAcquire(SamplerThread) \/ WriteSetFlag(SamplerThread)
               \/ WriteSort(SamplerThread) \/ WriteLine(SamplerThread)
               \/ WriteClose(SamplerThread))
    /\ \A c \in Callers :
         WF_vars(WriteAcquire(c) \/ WriteSetFlag(c) \/ WriteSort(c) \/ WriteLine(c)
                 \/ WriteClose(c) \/ JoinUnstarted(c) \/ JoinReturn(c))

\* --------------------------------------------------- reading the output

\* the place of the space that ends the key of a line
LastSpace(line) ==
    CHOOSE i \in 1..Len(line) :
        line[i] = " " /\ \A j \in (i + 1)..Len(line) : line[j] # " "

LineKey(line) == SubSeq(line, 1, LastSpace(line) - 1)

RECURSIVE DecValue(_)
DecValue(digits) ==
    IF digits = <<>> THEN 0
    ELSE 10 * DecValue(SubSeq(digits, 1, Len(digits) - 1)) + (Code(digits[Len(digits)]) - Code("0"))

LineCount(line) == DecValue(SubSeq(line, LastSpace(line) + 1, Len(line) - 1))

RECURSIVE SumLines(_)
SumLines(lines) == IF lines = <<>> THEN 0 ELSE LineCount(Head(lines)) + SumLines(Tail(lines))

\* the count of a key, 0 when it is absent
CountAt(d, k) == IF k \in DOMAIN d THEN d[k] ELSE 0

\* caller c's stop() has returned
StopReturned(c) == call[c] \in {"stop", "stop again"} /\ pc[c] = "idle" /\ err[c] = "none"

\* caller c is inside stop()
InStop(c) == pc[c] \in {"acquire", "set", "sort", "write", "join"}

\* ------------------------------------------------------------------ claims

\* C1: whatever the interleaving of the _write_results calls of explicit
\* stop()s, the shutdown hook and the end of run(), the lines are
\* serialized at most once, the sink is closed at most once and exactly
\* once when a _write_results call has returned, and no write reaches the
\* closed sink.
C1_WriteOnce ==
    /\ serializations <= 1
    /\ closes <= 1
    /\ ~late_write
    /\ flushed => closes = 1

\* C1 witness: the hook's stop, an explicit stop of the other thread and the
\* sampler thread's own call have all gone through _write_results, and
\* lines were written
C1_Witness ==
    /\ hook = "returned"
    /\ StopReturned("other")
    /\ pc[SamplerThread] = "done"
    /\ Len(sink) >= 2
    /\ closes = 1

\* C2: once _written is set no observation is recorded any more (the
\* sampler thread leaves _stats alone), so when stop() has returned the
\* counts written add up to num_frames().
C2_NoRecordAfterFlush ==
    /\ [][written => stats' = stats]_vars
    /\ [](\A c \in Callers :
            StopReturned(c) /\ thread_started => SumLines(sink) = num_frames(stats, FALSE))

\* C3: every line written carries the count its key had when _written was
\* set, and once the sink is closed every key present at that moment has
\* its line.
C3_FlushIsSnapshot ==
    /\ \A n \in DOMAIN sink :
         LineCount(sink[n]) = CountAt(stats_at_flag, LineKey(sink[n]))
    /\ closes > 0 =>
         \A k \in DOMAIN stats_at_flag : \E n \in DOMAIN sink : LineKey(sink[n]) = k

C4_WitnessSampler == last_call.again /\ ever_started[last_call.of]

\* C5: once stop() was called after a start, the sampler does not run
\* again: the polling sampler's thread has ended when stop() has returned
\* and stays ended, and the timer is never armed again for a stopped
\* Sampler.
C5_NoRestart ==
    /\ (\E c \in Callers : StopReturned(c)) /\ thread_started => pc[SamplerThread] = "done"
    /\ \A i \in Instances : stopped[i] => ~(timer /\ handler = i)

\* C6: the stop() that atexit runs raises nothing, whether the polling
\* sampler was never started, is running or was stopped, and when it has
\* returned the results were flushed once.
C6_HookSafe ==
    /\ hook # "raised"
    /\ hook = "returned" => closes = 1 /\ serializations = 1

\* C7: when stop() is called on a started polling sampler, the sampler
\* thread ends and stop() returns, and when stop() has returned the thread
\* is not alive.
C7_StopTerminates ==
    /\ \A c \in Callers :
         (InStop(c) /\ thread_started) ~> (pc[SamplerThread] = "done" /\ pc[c] = "idle")
    /\ [](\A c \in Callers : StopReturned(c) => thread_started /\ pc[SamplerThread] = "done")

\* C7 witness: stop() has returned for a sampler that had taken a snapshot
C7_Witness == StopReturned("main") /\ ticks > 0 /\ pc[SamplerThread] = "done"

\* C8: a start() of a Sampler in a thread other than the main thread raises
\* ValueError and leaves the handler, the timer, the atexit registrations
\* and the counts as they were; an instance no start() of which has
\* returned holds no counts, owns neither the handler nor a registration,
\* and a stop() of it raises nothing, leaves the timer disarmed (it was
\* armed only if another instance armed it) and changes nothing else.
C8_WrongThreadStart ==
    /\ [][last_call' # last_call /\ last_call'.op = "start" /\ last_call'.by # "main" =>
            /\ last_call'.raised = "ValueError"
            /\ handler' = handler /\ timer' = timer /\ hooks' = hooks
            /\ stack_counts' = stack_counts]_vars
    /\ [](\A i \in Instances : ~ever_started[i] =>
            /\ stack_counts[i] = EmptyCounts
            /\ handler # i
            /\ \A n \in DOMAIN hooks : hooks[n] # i)
    /\ [][last_call' # last_call /\ last_call'.op = "stop" /\ ~ever_started[last_call'.of] =>
            /\ last_call'.raised = "none"
            /\ ~timer'
            /\ timer => handler \in Instances \ {last_call'.of}
            /\ handler' = handler /\ hooks' = hooks /\ stack_counts' = stack_counts
            /\ started' = started]_vars

\* C8 witness: a start() off the main thread was followed by a stop() of the
\* same instance, which never started
C8_Witness ==
    /\ last_call.op = "stop"
    /\ ~ever_started[last_call.of]
    /\ started[last_call.of] # -1
    /\ ~timer

\* C9: in either sampler the count of each key is the number of
\* observations of it that were recorded (since the last reset),
\* num_frames(unique=True) is the number of distinct keys recorded,
\* num_frames(unique=False) the number of observations, and no key is
\* present with count 0.
CountsAgree(d, seen) ==
    /\ DOMAIN d = DOMAIN seen
    /\ \A k \in DOMAIN d : d[k] = seen[k] /\ d[k] > 0
    /\ num_frames(d, TRUE) = Cardinality(DOMAIN seen)
    /\ num_frames(d, FALSE) = SumOver(seen, DOMAIN seen)

C9_CountsAreObservations ==
    /\ CountsAgree(stats, recorded)
    /\ \A i \in Instances : CountsAgree(stack_counts[i], observed[i])

\* C9 witness: the polling sampler recorded the same key twice, so that the
\* two readings of num_frames differ
C9_Witness ==
    /\ \E k \in DOMAIN stats : stats[k] = 2
    /\ num_frames(stats, TRUE) = 1
    /\ num_frames(stats, FALSE) = 2

\* C9, the Sampler's case reached: an instance counted a key twice
C9_WitnessSampler ==
    \E i \in Instances : \E k \in DOMAIN stack_counts[i] : stack_counts[i][k] = 2

\* C10: every key in _stats matches the filter when there is one, and a
\* captured key that matches it, or any captured key when there is none, is
\* counted.
C10_Filter ==
    /\ [](\A k \in DOMAIN stats : filter.none \/ Search(filter, k))
    /\ [][pc[SamplerThread] = "for" /\ pc'[SamplerThread] = "sleep" =>
            IF filter.none \/ Search(filter, captured')
              THEN CountAt(stats', captured') = CountAt(stats, captured') + 1
              ELSE stats' = stats]_vars

\* C10 witness: under the filter ':b' a key that matches away from its start
\* is in _stats, and a key that does not match was captured and dropped
C10_Witness ==
    /\ filter = PatBar
    /\ pc[SamplerThread] = "sleep"
    /\ ~Search(filter, captured)
    /\ create_flamegraph_entry(ChainMainBar) \in DOMAIN stats

\* ------------------------------------------------------------ claim C11

\* a line is '<key> <count>' and a line end, the count in decimal digits
LineShape(line) ==
    /\ Len(line) >= 3
    /\ line[Len(line)] = "\n"
    /\ LastSpace(line) \in 1..(Len(line) - 2)
    /\ \A n \in (LastSpace(line) + 1)..(Len(line) - 1) :
           line[n] \in {"0", "1", "2", "3", "4", "5", "6", "7", "8", "9"}

\* lines holds one line per key of d with the count d holds for it, the
\* keys strictly ascending, and no other line
Serialized(lines, d) ==
    /\ Len(lines) = Cardinality(DOMAIN d)
    /\ \A n \in DOMAIN lines :
          /\ LineShape(lines[n])
          /\ LineKey(lines[n]) \in DOMAIN d
          /\ LineCount(lines[n]) = d[LineKey(lines[n])]
    /\ \A n \in 1..(Len(lines) - 1) : StrLess(LineKey(lines[n]), LineKey(lines[n + 1]))

\* C11: the key-sorted serialization of an aggregator's contents, by the
\* flush of the polling sampler (once the sink is closed) and by
\* write_results of the signal sampler, is exactly one line '<key> <count>'
\* per key, in strictly ascending order of the keys, each with the count the
\* aggregator holds for the key, and no other line.
C11_KeySorted ==
    /\ (program = "ProfileThread" /\ closes > 0) => Serialized(sink, stats)
    /\ \A i \in Instances : out[i] # <<>> => Serialized(out[i], stack_counts[i])

\* the flush of the polling sampler has written three keys, one of them a
\* prefix of another and one with a count of two digits, and closed the sink
C11_Witness ==
    /\ program = "ProfileThread"
    /\ closes > 0
    /\ Len(sink) = 3
    /\ \E n \in DOMAIN sink : LineCount(sink[n]) = BigCount

\* write_results has written three keys that the dict holds in another order
C11_WitnessSampler ==
    /\ Len(out["A"]) = 3
    /\ \E n \in 1..3 : LineCount(out["A"][n]) = BigCount
    /\ key_order["A"] # Sorted(DOMAIN stack_counts["A"])

\* ------------------------------------------------------------ claim C12

RECURSIVE SplitLines(_)
\* the lines of a text, each with the line end that closes it
SplitLines(text) ==
    IF text = <<>> THEN <<>>
    ELSE LET n == CHOOSE n \in 1..(Len(text) + 1) :
                    /\ n <= Len(text) => text[n] = "\n"
                    /\ \A j \in 1..(n - 1) : text[j] # "\n"
         IN  <<SubSeq(text, 1, n)>> \o SplitLines(SubSeq(text, n + 1, Len(text)))

\* line starts with the characters of word
StartsWith(line, word) == Len(line) >= Len(word) /\ SubSeq(line, 1, Len(word)) = word

\* the lines of a report after its two header lines
EntryLines(text) == SubSeq(SplitLines(text), 3, Len(SplitLines(text)))

\* text is a report of the counts d: the two header lines, then one line
\* per key of d with its count, the counts never increasing
IsReport(text, d) ==
    LET lines == SplitLines(text)
        entries == EntryLines(text)
    IN  /\ text # <<>> /\ text[Len(text)] = "\n"
        /\ Len(lines) = 2 + Cardinality(DOMAIN d)
        /\ StartsWith(lines[1], <<"e", "l", "a", "p", "s", "e", "d", " ">>)
        /\ StartsWith(lines[2], <<"g", "r", "a", "n", "u", "l", "a", "r", "i", "t", "y", " ">>)
        /\ \A n \in DOMAIN entries :
              /\ LineShape(entries[n])
              /\ LineKey(entries[n]) \in DOMAIN d
              /\ LineCount(entries[n]) = d[LineKey(entries[n])]
        /\ \A m, n \in DOMAIN entries : m # n => LineKey(entries[m]) # LineKey(entries[n])
        /\ \A n \in 1..(Len(entries) - 1) : LineCount(entries[n]) >= LineCount(entries[n + 1])

\* C12: what output_stats returns for a signal sampler that was started is
\* a report whose first two lines are the 'elapsed' and the 'granularity'
\* header, followed by exactly one line '<key> <count>' per entry of the
\* aggregator, the counts non-increasing from top to bottom; the call
\* changes neither the aggregator nor the timer.
C12_Report ==
    [][\A i \in Instances :
          report'[i] # report[i] =>
             /\ started[i] >= 0
             /\ IsReport(report'[i], stack_counts[i])
             /\ UNCHANGED <<stack_counts, key_order, started, timer, handler, hooks>>]_vars

\* a report of three entries of a running sampler whose dict holds first a
\* key that has not the greatest count
C12_Witness ==
    /\ timer
    /\ Len(EntryLines(report["B"])) = 3
    /\ LineCount(EntryLines(report["B"])[1]) > LineCount(EntryLines(report["B"])[3])
    /\ LineKey(EntryLines(report["B"])[1]) # key_order["B"][1]

\* ------------------------------------------------------------ claim C13

\* C13: the order of the entry lines of the count-sorted report is a
\* function of the final mapping of keys to counts alone: two signal
\* samplers whose aggregators hold the same counts for the same keys, the
\* keys first observed in different orders, report the same sequence of
\* entry lines, lines of equal count included.
C13_OrderByMappingAlone ==
    (/\ report["A"] # <<>>
     /\ report["B"] # <<>>
     /\ stack_counts["A"] = stack_counts["B"])
    => EntryLines(report["A"]) = EntryLines(report["B"])

\* ------------------------------------------------------------ claim C14

RECURSIVE Labels(_)
\* the parts of a key between its ';'
Labels(key) ==
    LET n == CHOOSE n \in 1..(Len(key) + 1) :
                 /\ n <= Len(key) => key[n] = ";"
                 /\ \A j \in 1..(n - 1) : key[j] # ";"
    IN  IF n > Len(key) THEN <<key>>
        ELSE <<SubSeq(key, 1, n - 1)>> \o Labels(SubSeq(key, n + 1, Len(key)))

\* line ends with the characters of word
EndsWith(line, word) ==
    Len(line) >= Len(word) /\ SubSeq(line, Len(line) - Len(word) + 1, Len(line)) = word

\* key has one label per frame of the chain, the root's first: the n-th
\* label is that of the n-th frame from the root, which ends with the name
\* of its function
RootToLeaf(key, chain) ==
    /\ Len(Labels(key)) = Len(chain)
    /\ \A n \in 1..Len(chain) : EndsWith(Labels(key)[n], chain[Len(chain) + 1 - n].name)

\* C14: for every chain of at least one frame, the key either formatter
\* makes has exactly as many labels as the chain has frames, in root-to-leaf
\* order, joined by ';'; and the polling formatter (extract_stack,
\* create_flamegraph_entry) and the formatter of the signal sampler
\* (_sample, _format_frame) make the identical key of the same chain.
C14_SameKey ==
    poll_key # <<>> =>
        /\ RootToLeaf(poll_key, frame)
        /\ RootToLeaf(signal_key, frame)
        /\ poll_key = signal_key

\* the part of C14 about the labels, their number and their order
C14_RootToLeaf ==
    poll_key # <<>> => RootToLeaf(poll_key, frame) /\ RootToLeaf(signal_key, frame)

\* ------------------------------------------------------------ claim C15

\* C15: reset() empties the aggregator of the instance (num_frames() and
\* num_frames(unique) are 0 right after it) and restarts its elapsed-time
\* baseline, and leaves the timer, armed or not, the installed handler and
\* the shutdown hooks as they are, so that a running sampler keeps
\* recording after it.
C15_Reset ==
    [][(last_call' # last_call /\ last_call'.op = "reset") =>
          LET i == last_call'.of IN
          /\ num_frames(stack_counts'[i], FALSE) = 0
          /\ num_frames(stack_counts'[i], TRUE) = 0
          /\ key_order'[i] = <<>>
          /\ started'[i] = now
          /\ \A j \in Instances \ {i} : stack_counts'[j] = stack_counts[j] /\ started'[j] = started[j]
          /\ UNCHANGED <<timer, handler, hooks>>]_vars

\* a running sampler recorded an observation, was reset at a later time
\* than its start, and has recorded another since
C15_Witness ==
    /\ last_call.op = "reset"
    /\ timer /\ handler = last_call.of
    /\ started[last_call.of] > 0
    /\ nobs = 2
    /\ num_frames(stack_counts[last_call.of], FALSE) = 1
    /\ \A j \in Instances \ {last_call.of} : ~ever_started[j]

\* ------------------------------------------------------------ claim C16

\* C16: in the polling sampler a failure while one thread's stack is
\* captured or formatted during a tick is tolerated: the thread is skipped
\* for that tick (nothing is counted for it), the sampling loop keeps
\* running for the remaining threads and the later ticks, and the
\* observations recorded before are flushed on stop.
C16_FailureTolerated ==
    /\ [][(capture_failed' /\ ~capture_failed) =>
             /\ pc'[SamplerThread] \in {"for", "sleep"}
             /\ pending' = Tail(pending)
             /\ stats' = stats]_vars
    /\ [](\A c \in Callers :
             (capture_failed /\ thread_started /\ StopReturned(c)) => closes = 1)

\* the part of C16 about the flush: a stop() that returns after a failed
\* capture has written and closed the sink
C16_FlushedOnStop ==
    \A c \in Callers : (capture_failed /\ thread_started /\ StopReturned(c)) => closes = 1

\* after a failed capture run() has ended, whatever the run flag says
C16_RunEnds == capture_failed => pc[SamplerThread] = "done"

\* ------------------------------------------------------------ claim C17

\* C17: the polling sampler never records the stack of its own thread.
\* The entry of a snapshot whose thread id is the sampler's own is passed
\* over with nothing captured and nothing counted; the entries of a
\* snapshot are distinct threads, each is taken up once, and the counts
\* change only when the entry of another thread is taken up, by one
\* observation at most.
C17_NeverOwnStack ==
    /\ [][(pc[SamplerThread] = "for" /\ pending # <<>> /\ Head(pending) = SamplerThread) =>
             (stats' = stats /\ captured' = <<>> /\ pc'[SamplerThread] = "for")]_vars
    /\ [][stats' # stats =>
             /\ pending # <<>>
             /\ Head(pending) # SamplerThread
             /\ pending' = Tail(pending)
             /\ num_frames(stats', FALSE) = num_frames(stats, FALSE) + 1]_vars
    /\ [](\A m, n \in DOMAIN pending : m # n => pending[m] # pending[n])

\* the sampler has counted the main thread and passed over its own entry;
\* the entry of the other thread is next
C17_Witness ==
    /\ pc[SamplerThread] = "for"
    /\ pending = <<"other">>
    /\ num_frames(stats, FALSE) = 1
    /\ sleeps = 1

\* ------------------------------------------------------------ claim C18

\* C18: the polling sampler takes one snapshot of all stacks per tick, at
\* the start of the tick.  After each capture of the stack of a thread
\* other than its own, whether or not the key passed the filter, it sleeps
\* one interval before it goes on with the snapshot; the run flag is tested
\* again only when every thread of the snapshot has been processed; and
\* between two consecutive captures there is exactly one sleep.
C18_SleepPerCapture ==
    /\ [][ticks' # ticks =>
             (pending = <<>> /\ ticks' = ticks + 1 /\ pc'[SamplerThread] = "for")]_vars
    /\ [][(pending' # pending /\ pending' # <<>>) =>
             (ticks' = ticks + 1 \/ pending' = Tail(pending))]_vars
    /\ [][(captured = <<>> /\ captured' # <<>>) =>
             /\ pc'[SamplerThread] = "sleep"
             /\ sleeps \in {-1, 1}
             /\ sleeps' = 0]_vars
    /\ [][(pc[SamplerThread] = "sleep" /\ pc'[SamplerThread] # "sleep") =>
             (pc'[SamplerThread] = "for" /\ sleeps' = 1 /\ pending' = pending)]_vars
    /\ [](pc[SamplerThread] \in {"test", "snapshot"} => pending = <<>>)

\* the sampler sleeps after a capture that did not pass the filter, the
\* second capture of the tick
C18_Witness ==
    /\ pc[SamplerThread] = "sleep"
    /\ ~filter.none
    /\ ~Search(filter, captured)
    /\ stats # EmptyCounts
    /\ sleeps = 0

\* ------------------------------------------------------------ claim C19

\* C19: the construction of a polling sampler with a filter that does not
\* compile fails at once with an error and leaves no trace: no shutdown
\* hook is registered, no sampler thread runs, no observation is recorded,
\* and nothing is written to the sink or closed on it.
C19_BadFilter ==
    /\ [][(/\ program = "none"
           /\ <<call["main"], err["main"]>>' # <<call["main"], err["main"]>>
           /\ call'["main"] = "ProfileThread, filter unclosed") =>
             /\ err'["main"] = "re.error"
             /\ UNCHANGED <<program, hooks, hook, thread_started, pc, stats, sink, closes,
                            filter, keeprunning, written>>]_vars
    /\ [](program = "none" =>
             /\ hooks = <<>>
             /\ ~thread_started
             /\ pc[SamplerThread] = "new"
             /\ stats = EmptyCounts
             /\ sink = <<>>
             /\ closes = 0)
    /\ [](program = "ProfileThread" => \A n \in DOMAIN filter.lit : filter.lit[n] # "(")

\* the constructor raised for the unclosed pattern, and the process has
\* ended since with no hook to run
C19_Witness ==
    /\ call["main"] = "ProfileThread, filter unclosed"
    /\ err["main"] = "re.error"
    /\ program = "none"
    /\ exiting

\* ------------------------------------------------------------ claim C20

\* the timer is armed and delivers to instance j
Running(j) == timer /\ handler = j

\* a stop() of an instance (explicit, by its finalizer or by its shutdown
\* hook) leaves every other instance that is running, running
C20_StopLeavesOthers ==
    [][(last_call' # last_call /\ last_call'.op \in {"stop", "del"}) =>
          \A j \in Instances \ {last_call'.of} : Running(j) => (timer' /\ handler' = j)]_vars

\* a start() of an instance leaves every other instance that is running,
\* running: its observations keep being recorded
C20_StartLeavesOthers ==
    [][(last_call' # last_call /\ last_call'.op = "start" /\ last_call'.raised = "none") =>
          \A j \in Instances \ {last_call'.of} : Running(j) => (timer' /\ handler' = j)]_vars

\* C20: the instances of the signal sampler are independent.  With A and B
\* both started, stop() on one (called explicitly, by its finalizer or by
\* its shutdown hook) leaves the other running: the timer stays armed and
\* the other keeps recording; and the start of one does not end the
\* recording of observations into the other.
C20_Independent ==
    /\ [][(last_call' # last_call /\ last_call'.op \in {"stop", "del"}) =>
             \A j \in Instances \ {last_call'.of} : Running(j) => (timer' /\ handler' = j)]_vars
    /\ [][(last_call' # last_call /\ last_call'.op = "start" /\ last_call'.raised = "none") =>
             \A j \in Instances \ {last_call'.of} : Running(j) => (timer' /\ handler' = j)]_vars
====
